---- MODULE Spec2Model ----
(***************************************************************************)
(* Model of src/src/lib/SunoApi.ts: the SunoApi client (session handshake, *)
(* token renewal, song submission, polling loop, feed fetch, credits).     *)
(*                                                                         *)
(* One client instance.  One caller is followed call by call: every action *)
(* is one turn of its method, the code from the point where the method is  *)
(* resumed (an answer arrives, a pause ends) or called, to the point where *)
(* it suspends again (await: a request is in flight, a pause runs) or      *)
(* ends.  The collaborators' answers (identity, token, generation, feed,   *)
(* billing endpoints) and the time they take are inputs drawn from small   *)
(* sets.  A second holder of the client may call any public method of it,  *)
(* init() included, while a call of the first is suspended; its answers    *)
(* and the end of its pause may come at any moment.  Time is the value of  *)
(* Date.now() - startTime in ms; it advances while the method is           *)
(* suspended.                                                              *)
(***************************************************************************)
EXTENDS Integers, Sequences, FiniteSets, TLC

VARIABLES
    sid,           \* this.sid
    interceptors,  \* tokens captured by the request interceptors of this.client,
                   \* in the order keepAlive registered them
    handed,        \* state of the exported promise `sunoApi`
    pc,            \* the await at which the running method is suspended ("idle":
                   \* none is running)
    op,            \* the method that runs, or ran last (generate and custom_generate
                   \* both run generateSongs)
    args,          \* arguments of the running method (of generateSongs: until the
                   \* first fetch is sent)
    clips,         \* response.data['clips'] of the submission (non-blocking path)
    songIds,       \* songIds (line 177)
    lastResponse,  \* lastResponse (line 181)
    fetched,       \* response of the loop body (line 184)
    clock,         \* Date.now() - startTime (line 180) at the last turn, in ms
    calls,         \* requests and pauses performed by the running method
    lastReq,       \* the request the caller's method sent most recently through
                   \* this.client (res "pending": it is in flight)
    outcome,       \* how the method that ran last ended
    error,         \* the error it threw, if any
    ret,           \* the list it returned, if any
    renewResponse, \* the token of renewResponse (line 75) while keepAlive pauses
                   \* on line 78 (0: no keepAlive of the caller is paused)
    other          \* the call another holder of the client has in flight

vars == <<sid, interceptors, handed, pc, op, args, clips, songIds, lastResponse,
          fetched, clock, calls, lastReq, outcome, error, ret, renewResponse, other>>

----------------------------------------------------------------------------
(* Bounds of the model *)

\* Longest text given to the lyrics normalisation.
MaxLen == 4

\* The token endpoint issues at most this many tokens to the client; it
\* answers further renewal calls with a failure.  This caps the number of
\* interceptors, which the code never removes.
MaxChain == 2

(* Program constants *)

\* while (Date.now() - startTime < 100000)
Deadline == 100000

----------------------------------------------------------------------------
(* Values *)

NoSid == "undefined"
Undefined == "undefined"

\* JavaScript falsiness of the values a session id can take (`!sid`).
Falsy(v) == v \in {"undefined", "null", ""}

\* last_active_session_id as the identity endpoint may report it: one of two
\* sessions, or none.
SidAnswers == {"sess_1", "sess_2", "null", ""}

\* Outcome of an HTTP exchange other than a usable answer. axios rejects when
\* the exchange fails or the status is outside 2xx ("http_error"), and when
\* the timeout of the request passes.
Failures == {"http_error", "timeout"}

\* The failures of a request sent without a timeout (lines 59, 75 and 272 pass
\* none, and neither does axios.create on line 38): axios never gives it up.
Untimed == Failures \ {"timeout"}

\* A record of the service: its id, its status and its metadata.prompt, a
\* text given as the sequence of its UTF-16 code units (97 is the letter a,
\* 32 the space, 10 the line feed).
Raw(id, st, p) == [id |-> id, status |-> st, prompt |-> p]

\* clips of a submission response.
ClipsAnswers ==
    { <<>>,
      << Raw("a1", "submitted", <<97, 10, 32, 10, 97>>) >>,
      << Raw("a1", "submitted", <<>>), Raw("a2", "queued", <<>>) >> }

\* Bodies of a feed response.
FeedAnswers ==
    { <<>>,
      << Raw("a1", "complete", <<97, 10, 32, 10, 97>>) >>,
      << Raw("a2", "streaming", <<>>), Raw("a1", "complete", <<>>) >>,
      << Raw("a1", "complete", <<>>), Raw("a2", "queued", <<>>) >> }

Prompts == {"a calm piano piece"}
TagsIn == {"lofi"}
TitlesIn == {"Dawn"}
\* Values passed for make_instrumental and for wait_audio.
InstrumentalIn == {"true", "false", "undefined", "null"}
WaitIn == {"true", "false", "undefined"}

NoArgs == [none |-> TRUE]
NoBody == [none |-> TRUE]
NoCalls == [identity |-> 0, renew |-> 0, generate |-> 0, feed |-> 0,
            billing |-> 0, pause |-> 0, throttle |-> 0]
NoReq == [kind |-> "none", url |-> <<>>, auth |-> 0, newest |-> 0, res |-> "none",
          body |-> NoBody, data |-> <<>>]

\* Code units of the texts given to get(): the letter a, the space, the tab,
\* the no-break space, the line feed.
Chars == {97, 32, 9, 160, 10}

\* The texts of at most MaxLen characters.
Texts == UNION { [1..n -> Chars] : n \in 0..MaxLen }

\* Lists of ids a caller passes to get().
IdLists == { <<>>, <<"a1">>, <<"a2", "a1">> }

----------------------------------------------------------------------------
(* sleep(x, y) of @/lib/utils: a pause of a whole number of seconds between *)
(* x and y, as the specification describes it.                             *)

Sleep(x, y) == { s * 1000 : s \in (IF x <= y THEN x ELSE y) .. (IF x <= y THEN y ELSE x) }

(* Time an exchange takes, in ms.                                          *)

\* The fetch (line 247) has a timeout of 3000 ms: it is answered within that
\* time or fails with a timeout when it has passed.
FetchTime(res) == IF res = "timeout" THEN {3000} ELSE {0, 1000}

\* The renewal call (line 75) sets no timeout: its answer may come at once or
\* after 90 of the loop's 100 seconds.
RenewTimes == {0, 90000}

----------------------------------------------------------------------------
(* The Authorization header of an outgoing request.                        *)
(* keepAlive registers one more request interceptor per renewal; each one   *)
(* overwrites config.headers['Authorization'] with the token it captured.  *)
(* axios runs request interceptors in the reverse of the order in which    *)
(* they were registered (Axios.request unshifts each handler onto the      *)
(* chain), so the interceptor registered first writes the header last.     *)

RECURSIVE Reverse(_)
Reverse(s) == IF s = <<>> THEN <<>> ELSE Append(Reverse(Tail(s)), Head(s))

\* The order in which axios runs the registered request interceptors.
ExecutionOrder(chain) == Reverse(chain)

RECURSIVE RunInterceptors(_, _)
RunInterceptors(order, header) ==
    IF order = <<>> THEN header
    ELSE RunInterceptors(Tail(order), Head(order))

\* The bearer token a request sent now carries (0: no Authorization header).
Authorization(chain) == RunInterceptors(ExecutionOrder(chain), 0)

\* The most recently issued of the installed tokens (tokens are numbered in
\* the order in which they are issued).
Newest(chain) ==
    IF chain = <<>> THEN 0
    ELSE CHOOSE t \in { chain[i] : i \in 1..Len(chain) } :
           \A i \in 1..Len(chain) : chain[i] <= t

\* A request that leaves through this.client while the interceptors are
\* `chain`: its kind, url and body, the Authorization header the interceptors
\* give it and the newest installed token at that moment.  It is in flight
\* until it is answered.
Request(chain, kind, url, body) ==
    [kind |-> kind, url |-> url, auth |-> Authorization(chain),
     newest |-> Newest(chain), res |-> "pending", body |-> body, data |-> <<>>]

\* The awaited exchange ends: res is the status or session id answered, "ok",
\* or the failure.
Answer(req, res) == [req EXCEPT !.res = res]

\* response.data of a feed request (line 252).
Answered(req, data) == [req EXCEPT !.data = data]

----------------------------------------------------------------------------
(* parseLyrics (lines 222-234) on texts as sequences of code units.        *)

\* prompt.split('\n')
RECURSIVE Split(_)
Split(s) ==
    IF \A i \in 1..Len(s) : s[i] # 10 THEN << s >>
    ELSE LET k == CHOOSE i \in 1..Len(s) :
                      s[i] = 10 /\ \A j \in 1..(i - 1) : s[j] # 10
         IN  << SubSeq(s, 1, k - 1) >> \o Split(SubSeq(s, k + 1, Len(s)))

\* Variant: the line is compared without trim().
NotEmptyLine(line) == line # <<>>

\* What String.prototype.trim removes: the white space of ECMAScript (TAB,
\* VT, FF, SP, NBSP, ZWNBSP and the space separators of Unicode) and its line
\* terminators (LF, CR, LS, PS).
WhiteSpace ==
    {9, 11, 12, 32, 160, 5760, 8239, 8287, 12288, 65279}
    \cup (8192..8202)
    \cup {10, 13, 8232, 8233}

\* line.trim() !== ''
NotBlank(line) == \E i \in 1..Len(line) : line[i] \notin WhiteSpace

RECURSIVE Join(_)
Join(lines) ==
    IF lines = <<>> THEN <<>>
    ELSE IF Len(lines) = 1 THEN lines[1]
    ELSE lines[1] \o << 10 >> \o Join(Tail(lines))

parseLyrics(prompt) == Join(SelectSeq(Split(prompt), NotBlank))

----------------------------------------------------------------------------
(* Result mapping *)

\* The record get() builds from a feed record (lines 253-268).
FeedInfo(audio) ==
    [id |-> audio.id,
     status |-> audio.status,
     lyric |-> IF audio.prompt # <<>> THEN parseLyrics(audio.prompt) ELSE <<>>,
     prompt |-> audio.prompt]

\* Variant: the clip's lyric normalised as get() does.
ClipInfoParsedLyric(audio) ==
    [id |-> audio.id,
     status |-> audio.status,
     lyric |-> IF audio.prompt # <<>> THEN parseLyrics(audio.prompt) ELSE <<>>,
     prompt |-> audio.prompt]

\* The record generateSongs builds from a clip (lines 198-213).
ClipInfo(audio) ==
    [id |-> audio.id,
     status |-> audio.status,
     lyric |-> audio.prompt,
     prompt |-> audio.prompt]

MapFeed(data) == [i \in 1..Len(data) |-> FeedInfo(data[i])]
MapClips(data) == [i \in 1..Len(data) |-> ClipInfo(data[i])]

\* response.data['clips'].map(audio => audio.id)
IdsOf(data) == [i \in 1..Len(data) |-> data[i].id]

\* Variant: only "complete" counts as finished.
AllCompletedOnlyComplete(response) ==
    \A i \in 1..Len(response) : response[i].status = "complete"

\* response.every(audio => audio.status === 'streaming' || audio.status === 'complete')
AllCompleted(response) ==
    \A i \in 1..Len(response) : response[i].status \in {"streaming", "complete"}

----------------------------------------------------------------------------
(* The payload of a submission (lines 145-156).                            *)

\* make_instrumental == true
StrictBool(flag) == flag = "true"

\* Variant: tags and title are sent in both modes.
PayloadTagsAlways(prompt, isCustom, tags, title, make_instrumental) ==
    IF isCustom
    THEN [make_instrumental |-> StrictBool(make_instrumental),
          mv |-> "chirp-v3-0",
          prompt |-> prompt,
          tags |-> tags,
          title |-> title]
    ELSE [make_instrumental |-> StrictBool(make_instrumental),
          mv |-> "chirp-v3-0",
          prompt |-> "",
          tags |-> tags,
          title |-> title,
          gpt_description_prompt |-> prompt]

Payload(prompt, isCustom, tags, title, make_instrumental) ==
    IF isCustom
    THEN [make_instrumental |-> StrictBool(make_instrumental),
          mv |-> "chirp-v3-0",
          prompt |-> prompt,
          tags |-> tags,
          title |-> title]
    ELSE [make_instrumental |-> StrictBool(make_instrumental),
          mv |-> "chirp-v3-0",
          prompt |-> "",
          gpt_description_prompt |-> prompt]

\* A parameter with a default value (make_instrumental = false, wait_audio = false).
Default(v, d) == IF v = Undefined THEN d ELSE v

\* generate(prompt, make_instrumental, wait_audio): line 94.
GenerateArgs ==
    { [prompt |-> p, isCustom |-> FALSE, tags |-> Undefined, title |-> Undefined,
       make_instrumental |-> Default(m, "false"), wait_audio |-> Default(w, "false")] :
      p \in Prompts, m \in InstrumentalIn, w \in WaitIn }

\* custom_generate(prompt, tags, title, make_instrumental, wait_audio): line 119.
CustomArgs ==
    { [prompt |-> p, isCustom |-> TRUE, tags |-> t, title |-> n,
       make_instrumental |-> Default(m, "false"), wait_audio |-> Default(w, "false")] :
      p \in Prompts, t \in TagsIn, n \in TitlesIn, m \in InstrumentalIn, w \in WaitIn }

----------------------------------------------------------------------------
(* Urls *)

\* Variant: the ids are joined last to first.
RECURSIVE JoinIdsReversed(_)
JoinIdsReversed(ids) ==
    IF ids = <<>> THEN <<>>
    ELSE IF Len(ids) = 1 THEN << ids[1] >>
    ELSE JoinIdsReversed(Tail(ids)) \o << ",", ids[1] >>

\* songIds.join(',')
RECURSIVE JoinIds(_)
JoinIds(ids) ==
    IF ids = <<>> THEN <<>>
    ELSE IF Len(ids) = 1 THEN << ids[1] >>
    ELSE << ids[1], "," >> \o JoinIds(Tail(ids))

\* lines 242-245; an array, even an empty one, is truthy.
FeedUrl(given, ids) ==
    IF given THEN << "/api/feed/", "?ids=" >> \o JoinIds(ids) ELSE << "/api/feed/" >>

RenewUrl(s) == << "/v1/client/sessions/", s, "/tokens/api" >>

----------------------------------------------------------------------------
(* State after construction (lines 35-46): no session id, no interceptor.  *)

\* No call of another holder is in flight.
NoOther == [at |-> "idle", op |-> "none", wait_audio |-> FALSE, kind |-> "none",
            isWait |-> FALSE, auth |-> 0, newest |-> 0, token |-> 0, clock |-> 0]

Init ==
    /\ sid = NoSid
    /\ interceptors = <<>>
    /\ handed = "pending"
    /\ pc = "idle"
    /\ op = "none"
    /\ args = NoArgs
    /\ clips = <<>>
    /\ songIds = <<>>
    /\ lastResponse = <<>>
    /\ fetched = <<>>
    /\ clock = 0
    /\ calls = NoCalls
    /\ lastReq = NoReq
    /\ outcome = "none"
    /\ error = "none"
    /\ ret = <<>>
    /\ renewResponse = 0
    /\ other = NoOther

Bump(c, k) == [c EXCEPT ![k] = @ + 1]

\* The running method ends: it returns list r (out says on which path) or
\* throws err (out = "rejected").
Finish(out, err, r) ==
    /\ pc' = "idle"
    /\ outcome' = out
    /\ error' = err
    /\ ret' = r

\* A method is called and suspends at the await p.
Running(p) ==
    /\ pc' = p
    /\ outcome' = "pending"
    /\ error' = "none"
    /\ ret' = <<>>

\* The running method suspends at the await p.
Suspend(p) ==
    /\ pc' = p
    /\ UNCHANGED <<outcome, error, ret>>

\* A call starts: the local variables of the method that ran before are gone.
NoLocals ==
    /\ clips' = <<>>
    /\ songIds' = <<>>
    /\ lastResponse' = <<>>
    /\ fetched' = <<>>
    /\ clock' = 0

\* Variant: the client is handed out without awaiting init().
HandedBeforeInit == TRUE

\* The promise exported as `sunoApi` resolved: callers hold a client (lines 282-287).
Handed == handed = "resolved"

\* newSunoApi has not started init() yet.
Fresh == handed = "pending" /\ op = "none"

\* The observed caller awaits each of its calls: it starts one when none of
\* its own is running.
Idle == pc = "idle"

\* Tokens the identity provider has issued to this client: the installed ones
\* and those a keepAlive(true) holds while it pauses on line 78.
Issued ==
    Len(interceptors) + (IF renewResponse = 0 THEN 0 ELSE 1)
                      + (IF other.token = 0 THEN 0 ELSE 1)

\* renewResponse.data['jwt']: the identity provider signs a fresh token per
\* renewal; tokens are numbered 1, 2, ... in the order they are issued.
NewToken == Issued + 1

\* The token endpoint issues a token while fewer than MaxChain are issued.
Bounded == Issued < MaxChain

----------------------------------------------------------------------------
(* keepAlive (lines 68-86).  The method suspends in the renewal call of     *)
(* line 75 and, with isWait, in sleep(1, 2) of line 78: KeepAlive is the    *)
(* code up to the renewal call, KeepAliveResumed the code that runs when    *)
(* the call is answered, Throttle the code that runs when the pause ends.  *)

\* Variant: keepAlive does not check the session id.
SessionMissingNever(s) == FALSE

\* if (!this.sid), line 69
SessionMissing(s) == Falsy(s)

\* line 70
KeepAliveError == "Session ID is not set. Cannot renew token."

\* this.client.interceptors.request.use(...), lines 82-85
Install(chain, token) == Append(chain, token)

\* Lines 69-75, called by a method that has made the calls `c` and whose
\* last request is `prev`, when the session id is `s` and the interceptors
\* are `chain`: keepAlive throws, or the renewal call leaves.
KeepAlive(s, chain, c, prev) ==
    /\ lastReq' = IF SessionMissing(s) THEN prev
                  ELSE Request(chain, "renew", RenewUrl(s), NoBody)
    /\ calls' = IF SessionMissing(s) THEN c ELSE Bump(c, "renew")

\* Answers of the token endpoint: a token, while it issues one, or a failure.
RenewAnswers == (IF Bounded THEN {"ok"} ELSE {}) \cup Untimed

\* Variant: a failed renewal forgets the session.
KeepAliveResumedClearsSid(isWait, a) ==
    /\ lastReq' = Answer(lastReq, a)
    /\ sid' = IF a \in Failures THEN NoSid ELSE sid
    /\ renewResponse' = IF a = "ok" /\ isWait THEN NewToken ELSE 0
    /\ interceptors' = IF a = "ok" /\ ~isWait
                       THEN Install(interceptors, NewToken)
                       ELSE interceptors

\* Variant: the interceptor is registered even when the renewal call failed.
KeepAliveResumedInstallsAlways(isWait, a) ==
    /\ lastReq' = Answer(lastReq, a)
    /\ sid' = sid
    /\ renewResponse' = IF a = "ok" /\ isWait THEN NewToken ELSE 0
    /\ interceptors' = IF a \in Failures \/ ~isWait
                       THEN Install(interceptors, NewToken)
                       ELSE interceptors

\* Lines 75-85 when the token endpoint answers `a`: the await of line 75
\* throws, or the token is kept for the pause of line 78, or (without isWait)
\* its interceptor is registered in the same turn.
KeepAliveResumed(isWait, a) ==
    /\ lastReq' = Answer(lastReq, a)
    /\ sid' = sid
    /\ renewResponse' = IF a = "ok" /\ isWait THEN NewToken ELSE 0
    /\ interceptors' = IF a = "ok" /\ ~isWait
                       THEN Install(interceptors, NewToken)
                       ELSE interceptors

\* Lines 78-85: sleep(1, 2) returns and the interceptor is registered.
Throttle ==
    /\ interceptors' = Install(interceptors, renewResponse)
    /\ renewResponse' = 0
    /\ sid' = sid

----------------------------------------------------------------------------
(* init (lines 48-52) *)

\* Variant: only null counts as a missing session id.
NoSessionNullOnly(a) == a = "null"

\* if (!sid), line 61
NoSession(a) == Falsy(a)

\* init() is called, by newSunoApi or by a holder of the client:
\* getAuthToken sends the request of line 59.
GetAuthToken(may) ==
    /\ may
    /\ Idle
    /\ op' = "init"
    /\ args' = NoArgs
    /\ lastReq' = Request(interceptors, "identity", << "/v1/client" >>, NoBody)
    /\ calls' = Bump(NoCalls, "identity")
    /\ Running("identity")
    /\ NoLocals
    /\ UNCHANGED <<sid, interceptors, handed, renewResponse, other>>

\* The identity endpoint answers (lines 59-65): the exchange fails, or no
\* session id is reported, or the session id is saved and init() goes on to
\* keepAlive() (line 50), whose renewal call leaves.
GetAuthTokenResumed ==
    /\ pc = "identity"
    /\ \E a \in SidAnswers \cup Untimed :
         IF a \in Failures \/ NoSession(a)
         THEN /\ lastReq' = Answer(lastReq, a)
              /\ calls' = calls
              /\ Finish("rejected",
                        IF a \in Failures THEN a ELSE "Failed to get session id", <<>>)
              /\ handed' = IF handed = "pending" THEN "rejected" ELSE handed
              /\ sid' = sid
         ELSE /\ sid' = a
              /\ KeepAlive(a, interceptors, calls, Answer(lastReq, a))
              /\ IF SessionMissing(a)
                 THEN /\ Finish("rejected", KeepAliveError, <<>>)
                      /\ handed' = IF handed = "pending" THEN "rejected" ELSE handed
                 ELSE /\ Suspend("init_keepAlive")
                      /\ handed' = handed
    /\ UNCHANGED <<interceptors, op, args, clips, songIds, lastResponse, fetched, clock,
                   renewResponse, other>>

\* The renewal call of init() is answered: await this.keepAlive(); return this;
InitKeepAlive ==
    /\ pc = "init_keepAlive"
    /\ \E a \in RenewAnswers :
         /\ KeepAliveResumed(FALSE, a)
         /\ IF a \in Failures
            THEN /\ Finish("rejected", a, <<>>)
                 /\ handed' = IF handed = "pending" THEN "rejected" ELSE handed
            ELSE /\ Finish("ready", "none", <<>>)
                 /\ handed' = IF handed = "pending" THEN "resolved" ELSE handed
    /\ UNCHANGED <<op, args, clips, songIds, lastResponse, fetched, clock, calls, other>>

----------------------------------------------------------------------------
(* keepAlive called by the holder of the client *)

\* keepAlive(isWait) is called: it throws or its renewal call leaves.
KeepAliveCall(may) ==
    /\ may
    /\ Idle
    /\ op' = "keepAlive"
    /\ \E isWait \in BOOLEAN : args' = [isWait |-> isWait]
    /\ KeepAlive(sid, interceptors, NoCalls, lastReq)
    /\ IF SessionMissing(sid)
       THEN Finish("rejected", KeepAliveError, <<>>)
       ELSE Running("keepAlive")
    /\ NoLocals
    /\ UNCHANGED <<sid, interceptors, handed, renewResponse, other>>

\* The renewal call of the holder's keepAlive is answered.
KeepAliveCallResumed ==
    /\ pc = "keepAlive"
    /\ \E a \in RenewAnswers :
         /\ KeepAliveResumed(args.isWait, a)
         /\ IF a \in Failures
            THEN Finish("rejected", a, <<>>)
            ELSE IF args.isWait
            THEN Suspend("keepAlive_wait")
            ELSE Finish("done", "none", <<>>)
    /\ UNCHANGED <<handed, op, args, clips, songIds, lastResponse, fetched, clock, calls,
                   other>>

\* keepAlive(true) called by the holder: the pause of line 78 is over.
KeepAliveThrottle ==
    /\ pc = "keepAlive_wait"
    /\ Throttle
    /\ calls' = Bump(calls, "throttle")
    /\ Finish("done", "none", <<>>)
    /\ UNCHANGED <<handed, op, args, clips, songIds, lastResponse, fetched, clock,
                   lastReq, other>>

----------------------------------------------------------------------------
(* generateSongs (lines 137-215) *)

\* Answers of the generation endpoint: status 200 with clips, another 2xx
\* status with its status text, or a failure of the exchange.
SubmitAnswers ==
    { [status |-> "200", statusText |-> "OK", clips |-> c] : c \in ClipsAnswers }
    \cup { [status |-> "201", statusText |-> t, clips |-> <<>>] : t \in {"Created", ""} }
    \cup { [status |-> f, statusText |-> "", clips |-> <<>>] : f \in Failures }

\* Variant: any 2xx status is accepted.
StatusOkAny2xx(status) == status \in {"200", "201"}

\* response.status !== 200, line 174
StatusOk(status) == status = "200"

\* "Error response:" + response.statusText, line 175
ErrorResponse(statusText) ==
    CASE statusText = "" -> "Error response:"
      [] statusText = "OK" -> "Error response:OK"
      [] statusText = "Created" -> "Error response:Created"

\* Lines 145-172: build the payload and post it.
Submit(may, a) ==
    /\ may
    /\ Idle
    /\ op' = "generateSongs"
    /\ args' = a
    /\ lastReq' = Request(interceptors, "generate", << "/api/generate/v2/" >>,
                          Payload(a.prompt, a.isCustom, a.tags, a.title,
                                  a.make_instrumental))
    /\ calls' = Bump(NoCalls, "generate")
    /\ Running("submit")
    /\ NoLocals
    /\ UNCHANGED <<sid, interceptors, handed, renewResponse, other>>

\* generate (lines 88-99): hands its arguments to generateSongs and returns
\* the promise it gets.
Generate(may) == \E a \in GenerateArgs : Submit(may, a)

\* custom_generate (lines 111-124): awaits generateSongs and returns its list.
CustomGenerate(may) == \E a \in CustomArgs : Submit(may, a)

\* The generation endpoint answers (lines 166-182, 197): the exchange fails or
\* the status is not 200 and generateSongs throws; or the ids are taken and,
\* with wait_audio, startTime is read and sleep(5, 5) starts; without it
\* keepAlive(true) is called, which throws or sends its renewal call.
SubmitResumed ==
    /\ pc = "submit"
    /\ \E r \in SubmitAnswers :
         IF r.status \in Failures \/ ~StatusOk(r.status)
         THEN /\ lastReq' = Answer(lastReq, r.status)
              /\ calls' = calls
              /\ Finish("rejected",
                        IF r.status \in Failures THEN r.status
                        ELSE ErrorResponse(r.statusText), <<>>)
              /\ UNCHANGED <<clips, songIds>>
         ELSE /\ clips' = r.clips
              /\ songIds' = IdsOf(r.clips)
              /\ IF args.wait_audio = "true"
                 THEN /\ lastReq' = Answer(lastReq, r.status)
                      /\ calls' = calls
                      /\ Suspend("initial_sleep")
                 ELSE /\ KeepAlive(sid, interceptors, calls, Answer(lastReq, r.status))
                      /\ IF SessionMissing(sid)
                         THEN Finish("rejected", KeepAliveError, <<>>)
                         ELSE Suspend("snapshot")
    /\ UNCHANGED <<sid, interceptors, handed, op, args, lastResponse, fetched, clock,
                   renewResponse, other>>

\* Variant: the comparison is turned around.
LoopGuardInverted(now) == now > Deadline

\* Variant: the loop still runs when exactly 100 seconds have elapsed.
LoopGuardInclusive(now) == now <= Deadline

\* Date.now() - startTime < 100000
LoopGuard(now) == now < Deadline

\* Variant: the deadline exit returns an empty list.
TimeoutReturnEmpty(last) == <<>>

\* The value returned when the deadline has passed (line 195).
TimeoutReturn(last) == last

\* Lines 183-184 and 195, when Date.now() - startTime is `now`, the
\* interceptors are `chain` and the method has made the calls `c`: the loop
\* test holds and get(songIds) sends the fetch (line 247), or it fails and
\* lastResponse is returned.
LoopTest(now, chain, c) ==
    IF LoopGuard(now)
    THEN /\ lastReq' = Request(chain, "feed", FeedUrl(TRUE, songIds), NoBody)
         /\ calls' = Bump(c, "feed")
         /\ Suspend("poll")
    ELSE /\ lastReq' = lastReq
         /\ calls' = c
         /\ Finish("TIMED_OUT", "none", TimeoutReturn(lastResponse))

\* sleep(5, 5) of line 182 returns: the loop is entered.
InitialSleep ==
    /\ pc = "initial_sleep"
    /\ \E d \in Sleep(5, 5) :
         /\ clock' = clock + d
         /\ LoopTest(clock + d, interceptors, Bump(calls, "pause"))
    /\ args' = NoArgs
    /\ clips' = <<>>
    /\ UNCHANGED <<sid, interceptors, handed, op, songIds, lastResponse, fetched,
                   renewResponse, other>>

\* Answers of the feed endpoint.
FeedResults == { [res |-> "ok", data |-> f] : f \in FeedAnswers }
               \cup { [res |-> f, data |-> <<>>] : f \in Failures }

\* The value returned when every fetched record is terminal (line 189).
CompleteReturn(response) == response

\* Variant: a failed fetch is swallowed and the loop goes on.
OnFetchErrorRetry(e) ==
    /\ pc' = "sleep"
    /\ UNCHANGED <<outcome, error, ret, fetched, lastResponse>>

\* await this.get(songIds) throws (line 184): nothing catches it.
OnFetchError(e) ==
    /\ Finish("rejected", e, <<>>)
    /\ UNCHANGED <<fetched, lastResponse>>

\* The fetch of line 184 is answered (lines 184-192): get throws, or maps the
\* records; every one is terminal and the list is returned, or it is kept as
\* lastResponse and sleep(3, 6) starts.
Poll ==
    /\ pc = "poll"
    /\ \E r \in FeedResults :
         /\ \E d \in FetchTime(r.res) : clock' = clock + d
         /\ lastReq' = Answered(Answer(lastReq, r.res), r.data)
         /\ IF r.res \in Failures
            THEN OnFetchError(r.res)
            ELSE /\ fetched' = MapFeed(r.data)
                 /\ IF AllCompleted(fetched')
                    THEN /\ Finish("ALL_COMPLETE", "none", CompleteReturn(fetched'))
                         /\ lastResponse' = lastResponse
                    ELSE /\ lastResponse' = fetched'
                         /\ Suspend("sleep")
    /\ UNCHANGED <<sid, interceptors, handed, op, args, clips, songIds, calls,
                   renewResponse, other>>

\* Variant: the loop pauses and fetches again without renewing the token.
LoopSleepThenPoll ==
    /\ pc = "sleep"
    /\ \E d \in Sleep(3, 6) :
         /\ clock' = clock + d
         /\ LoopTest(clock + d, interceptors, Bump(calls, "pause"))
    /\ UNCHANGED <<sid, interceptors, handed, op, args, clips, songIds, lastResponse,
                   fetched, renewResponse, other>>

\* sleep(3, 6) of line 192 returns and keepAlive(true) is called (line 193):
\* it throws or its renewal call leaves.
LoopSleep ==
    /\ pc = "sleep"
    /\ \E d \in Sleep(3, 6) : clock' = clock + d
    /\ KeepAlive(sid, interceptors, Bump(calls, "pause"), lastReq)
    /\ IF SessionMissing(sid)
       THEN Finish("rejected", KeepAliveError, <<>>)
       ELSE Suspend("refresh")
    /\ UNCHANGED <<sid, interceptors, handed, op, args, clips, songIds, lastResponse,
                   fetched, renewResponse, other>>

\* The renewal call of line 193 is answered: keepAlive throws or pauses.
LoopKeepAlive ==
    /\ pc = "refresh"
    /\ \E a \in RenewAnswers :
         /\ KeepAliveResumed(TRUE, a)
         /\ IF a \in Failures
            THEN Finish("rejected", a, <<>>)
            ELSE Suspend("refresh_wait")
    /\ \E d \in RenewTimes : clock' = clock + d
    /\ UNCHANGED <<handed, op, args, clips, songIds, lastResponse, fetched, calls,
                   other>>

\* Variant: the pause of line 78 takes no time.
LoopThrottleNoPause ==
    /\ pc = "refresh_wait"
    /\ Throttle
    /\ clock' = clock
    /\ LoopTest(clock, Install(interceptors, renewResponse), Bump(calls, "throttle"))
    /\ UNCHANGED <<handed, op, args, clips, songIds, lastResponse, fetched, other>>

\* The pause of keepAlive(true) of line 193 is over: the interceptor is
\* registered and the loop test is made again.
LoopThrottle ==
    /\ pc = "refresh_wait"
    /\ Throttle
    /\ \E d \in Sleep(1, 2) :
         /\ clock' = clock + d
         /\ LoopTest(clock + d, Install(interceptors, renewResponse),
                     Bump(calls, "throttle"))
    /\ UNCHANGED <<handed, op, args, clips, songIds, lastResponse, fetched, other>>

\* Variant: a failed renewal is swallowed and the clips are returned.
SnapshotIgnoresRefreshError ==
    /\ pc = "snapshot"
    /\ \E a \in RenewAnswers :
         /\ KeepAliveResumed(TRUE, a)
         /\ IF a \in Failures
            THEN Finish("SNAPSHOT", "none", MapClips(clips))
            ELSE Suspend("snapshot_wait")
    /\ UNCHANGED <<handed, op, args, clips, songIds, lastResponse, fetched, clock,
                   calls, other>>

\* The renewal call of line 197 is answered: keepAlive throws or pauses.
Snapshot ==
    /\ pc = "snapshot"
    /\ \E a \in RenewAnswers :
         /\ KeepAliveResumed(TRUE, a)
         /\ IF a \in Failures
            THEN Finish("rejected", a, <<>>)
            ELSE Suspend("snapshot_wait")
    /\ UNCHANGED <<handed, op, args, clips, songIds, lastResponse, fetched, clock,
                   calls, other>>

\* The pause of keepAlive(true) of line 197 is over: the interceptor is
\* registered, the clips are mapped and returned (lines 198-213).
SnapshotThrottle ==
    /\ pc = "snapshot_wait"
    /\ Throttle
    /\ calls' = Bump(calls, "throttle")
    /\ Finish("SNAPSHOT", "none", MapClips(clips))
    /\ UNCHANGED <<handed, op, args, clips, songIds, lastResponse, fetched, clock,
                   lastReq, other>>

----------------------------------------------------------------------------
(* get (lines 241-269) and get_credits (lines 271-279) called by the holder *)

\* get(songIds) is called (lines 242-247): the fetch leaves; args keeps the
\* argument: whether a list was given, and the list.
Get(may) ==
    /\ may
    /\ Idle
    /\ op' = "get"
    /\ \E given \in BOOLEAN, ids \in IdLists :
         /\ given \/ ids = <<>>
         /\ args' = [given |-> given, ids |-> ids]
         /\ lastReq' = Request(interceptors, "feed", FeedUrl(given, ids), NoBody)
    /\ calls' = Bump(NoCalls, "feed")
    /\ Running("get")
    /\ NoLocals
    /\ UNCHANGED <<sid, interceptors, handed, renewResponse, other>>

\* The feed endpoint answers one of `results` (lines 247-268).
GetResumed(results) ==
    /\ pc = "get"
    /\ \E r \in results :
         /\ lastReq' = Answered(Answer(lastReq, r.res), r.data)
         /\ IF r.res \in Failures
            THEN Finish("rejected", r.res, <<>>)
            ELSE Finish("done", "none", MapFeed(r.data))
    /\ UNCHANGED <<sid, interceptors, handed, op, args, clips, songIds, lastResponse,
                   fetched, clock, calls, renewResponse, other>>

\* get_credits() is called: the request of line 272 leaves.
GetCredits(may) ==
    /\ may
    /\ Idle
    /\ op' = "get_credits"
    /\ args' = NoArgs
    /\ lastReq' = Request(interceptors, "billing", << "/api/billing/info/" >>, NoBody)
    /\ calls' = Bump(NoCalls, "billing")
    /\ Running("get_credits")
    /\ NoLocals
    /\ UNCHANGED <<sid, interceptors, handed, renewResponse, other>>

\* The billing endpoint answers (lines 272-278).
GetCreditsResumed ==
    /\ pc = "get_credits"
    /\ \E res \in {"ok"} \cup Untimed :
         /\ lastReq' = Answer(lastReq, res)
         /\ IF res \in Failures
            THEN Finish("rejected", res, <<>>)
            ELSE Finish("done", "none", <<>>)
    /\ UNCHANGED <<sid, interceptors, handed, op, args, clips, songIds, lastResponse,
                   fetched, clock, calls, renewResponse, other>>

----------------------------------------------------------------------------
(* Calls of another holder of the same client.  Nothing in the class keeps  *)
(* a second call from starting while one is suspended.  Such a call is      *)
(* followed turn by turn, as the call of the observed caller is, through   *)
(* what it does to the client: the requests it sends, the session id an    *)
(* init() saves and the interceptors its keepAlive calls register.  Of its *)
(* locals the record keeps what decides its next turn: the method (op),    *)
(* wait_audio, the await it is suspended at (at, kind), isWait of its      *)
(* keepAlive, the token of renewResponse (token) and, with wait_audio, its *)
(* Date.now() - startTime (clock).                                         *)

\* The methods another holder calls (generate and custom_generate both run
\* generateSongs).
OtherOps == {"init", "keepAlive", "generateSongs", "get", "get_credits"}

\* The request another holder's method `o` sends when the interceptors are
\* `chain`: it leaves with the header they give it now.
OtherRequest(o, chain, kind, isWait, now) ==
    [at |-> "sent", op |-> o.op, wait_audio |-> o.wait_audio, kind |-> kind, isWait |-> isWait,
     auth |-> Authorization(chain), newest |-> Newest(chain), token |-> 0,
     clock |-> now]

\* keepAlive(isWait) called in a method of the other holder (lines 69-75):
\* it throws, which ends the method, or its renewal call leaves.
OtherKeepAlive(o, isWait, now) ==
    IF SessionMissing(sid) THEN NoOther
    ELSE OtherRequest(o, interceptors, "renew", isWait, now)

\* Lines 183-184 and 195 in the other holder's generateSongs: the fetch
\* leaves, or the method returns.
OtherLoopTest(now, chain) ==
    IF LoopGuard(now) THEN OtherRequest(other, chain, "feed", FALSE, now)
    ELSE NoOther

\* Another holder calls init, generate, custom_generate, get, get_credits or
\* keepAlive: the method runs up to its first request (w: isWait of
\* keepAlive, wait_audio of the two generate methods).  keepAlive without a
\* session id throws before it sends anything (line 70).
OtherCall(may) ==
    /\ may
    /\ other.at = "idle"
    /\ \E o \in OtherOps, w \in BOOLEAN :
         LET c == [op |-> o, wait_audio |-> w /\ o = "generateSongs"] IN
         /\ w => o \in {"keepAlive", "generateSongs"}
         /\ other' = CASE o = "init" -> OtherRequest(c, interceptors, "identity", FALSE, 0)
                       [] o = "keepAlive" -> OtherKeepAlive(c, w, 0)
                       [] o = "generateSongs" ->
                            OtherRequest(c, interceptors, "generate", FALSE, 0)
                       [] o = "get" -> OtherRequest(c, interceptors, "feed", FALSE, 0)
                       [] o = "get_credits" ->
                            OtherRequest(c, interceptors, "billing", FALSE, 0)
    /\ UNCHANGED <<sid, interceptors, handed, pc, op, args, clips, songIds,
                   lastResponse, fetched, clock, calls, lastReq, outcome, error, ret,
                   renewResponse>>

\* The identity endpoint answers the other holder's init() (lines 59-65,
\* 50): getAuthToken throws, or saves the session id and keepAlive() sends
\* its renewal call.
OtherGetAuthToken ==
    /\ other.at = "sent"
    /\ other.kind = "identity"
    /\ \E a \in SidAnswers \cup Untimed :
         IF a \in Failures \/ NoSession(a)
         THEN /\ sid' = sid
              /\ other' = NoOther
         ELSE /\ sid' = a
              /\ other' = IF SessionMissing(a) THEN NoOther
                          ELSE OtherRequest(other, interceptors, "renew", FALSE, 0)
    /\ UNCHANGED <<interceptors, handed, pc, op, args, clips, songIds, lastResponse,
                   fetched, clock, calls, lastReq, outcome, error, ret, renewResponse>>

\* The generation endpoint answers the other holder's submission (lines
\* 166-182, 197): generateSongs throws; or, with wait_audio, sleep(5, 5)
\* starts; or keepAlive(true) is called in the same turn.
OtherSubmitResumed ==
    /\ other.at = "sent"
    /\ other.kind = "generate"
    /\ \E r \in SubmitAnswers :
         other' = IF r.status \in Failures \/ ~StatusOk(r.status) THEN NoOther
                  ELSE IF other.wait_audio
                  THEN [other EXCEPT !.at = "initial_sleep", !.kind = "none",
                                     !.auth = 0, !.newest = 0]
                  ELSE OtherKeepAlive(other, TRUE, 0)
    /\ UNCHANGED <<sid, interceptors, handed, pc, op, args, clips, songIds,
                   lastResponse, fetched, clock, calls, lastReq, outcome, error, ret,
                   renewResponse>>

\* sleep(5, 5) of the other holder's generateSongs returns (lines 182-184).
OtherInitialSleep ==
    /\ other.at = "initial_sleep"
    /\ \E d \in Sleep(5, 5) : other' = OtherLoopTest(other.clock + d, interceptors)
    /\ UNCHANGED <<sid, interceptors, handed, pc, op, args, clips, songIds,
                   lastResponse, fetched, clock, calls, lastReq, outcome, error, ret,
                   renewResponse>>

\* The fetch of the other holder's loop is answered (lines 184-192): get
\* throws, or every record is terminal and the method returns, or
\* sleep(3, 6) starts.
OtherPoll ==
    /\ other.at = "sent"
    /\ other.kind = "feed"
    /\ other.op = "generateSongs"
    /\ \E r \in FeedResults : \E d \in FetchTime(r.res) :
         other' = IF r.res \in Failures \/ AllCompleted(MapFeed(r.data)) THEN NoOther
                  ELSE [other EXCEPT !.at = "sleep", !.kind = "none", !.auth = 0,
                                     !.newest = 0, !.clock = @ + d]
    /\ UNCHANGED <<sid, interceptors, handed, pc, op, args, clips, songIds,
                   lastResponse, fetched, clock, calls, lastReq, outcome, error, ret,
                   renewResponse>>

\* sleep(3, 6) of the other holder's loop returns and keepAlive(true) is
\* called (lines 192-193).
OtherLoopSleep ==
    /\ other.at = "sleep"
    /\ \E d \in Sleep(3, 6) : other' = OtherKeepAlive(other, TRUE, other.clock + d)
    /\ UNCHANGED <<sid, interceptors, handed, pc, op, args, clips, songIds,
                   lastResponse, fetched, clock, calls, lastReq, outcome, error, ret,
                   renewResponse>>

\* The renewal call of a keepAlive of the other holder is answered (lines
\* 75-85): keepAlive throws, registers its interceptor, or pauses first
\* (line 78).  In the loop of generateSongs the time the answer took has
\* passed since startTime.
OtherKeepAliveResumed ==
    /\ other.at = "sent"
    /\ other.kind = "renew"
    /\ \E a \in RenewAnswers, d \in RenewTimes :
         /\ IF a = "ok"
            THEN IF other.isWait
                 THEN /\ other' = [other EXCEPT !.at = "throttle", !.token = NewToken,
                                      !.clock = IF other.wait_audio THEN @ + d ELSE @]
                      /\ interceptors' = interceptors
                 ELSE /\ other' = NoOther
                      /\ interceptors' = Install(interceptors, NewToken)
            ELSE /\ other' = NoOther
                 /\ interceptors' = interceptors
    /\ UNCHANGED <<sid, handed, pc, op, args, clips, songIds, lastResponse, fetched,
                   clock, calls, lastReq, outcome, error, ret, renewResponse>>

\* The fetch of the other holder's get() or its credits request is answered
\* (lines 247-268, 272-278): the method returns or throws.
OtherAnswer ==
    /\ other.at = "sent"
    /\ other.op \in {"get", "get_credits"}
    /\ other' = NoOther
    /\ UNCHANGED <<sid, interceptors, handed, pc, op, args, clips, songIds,
                   lastResponse, fetched, clock, calls, lastReq, outcome, error, ret,
                   renewResponse>>

\* The pause of the other holder's keepAlive(true) is over (lines 78-85):
\* the interceptor is registered; keepAlive returns to the holder, or to
\* generateSongs, which returns the clips (line 198) or makes the loop test
\* (lines 183-184, 195).
OtherThrottle ==
    /\ other.at = "throttle"
    /\ interceptors' = Install(interceptors, other.token)
    /\ \E d \in Sleep(1, 2) :
         other' = IF other.wait_audio
                  THEN OtherLoopTest(other.clock + d, Install(interceptors, other.token))
                  ELSE NoOther
    /\ UNCHANGED <<sid, handed, pc, op, args, clips, songIds, lastResponse, fetched,
                   clock, calls, lastReq, outcome, error, ret, renewResponse>>

----------------------------------------------------------------------------
(* The program: newSunoApi (lines 282-287) constructs the client and runs  *)
(* init(); callers reach the client only through the exported promise and  *)
(* may then call any public method of it, init() again included.           *)

Next ==
    \/ GetAuthToken(Fresh \/ Handed)
    \/ GetAuthTokenResumed
    \/ InitKeepAlive
    \/ KeepAliveCall(Handed)
    \/ KeepAliveCallResumed
    \/ KeepAliveThrottle
    \/ Generate(Handed)
    \/ CustomGenerate(Handed)
    \/ SubmitResumed
    \/ InitialSleep
    \/ Poll
    \/ LoopSleep
    \/ LoopKeepAlive
    \/ LoopThrottle
    \/ Snapshot
    \/ SnapshotThrottle
    \/ Get(Handed)
    \/ GetResumed(FeedResults)
    \/ GetCredits(Handed)
    \/ GetCreditsResumed
    \/ OtherCall(Handed)
    \/ OtherGetAuthToken
    \/ OtherSubmitResumed
    \/ OtherInitialSleep
    \/ OtherPoll
    \/ OtherLoopSleep
    \/ OtherKeepAliveResumed
    \/ OtherAnswer
    \/ OtherThrottle

Spec == Init /\ [][Next]_vars

\* The turns of a method that is running: an answer arrives, a pause ends.
Continue ==
    \/ GetAuthTokenResumed
    \/ InitKeepAlive
    \/ KeepAliveCallResumed
    \/ KeepAliveThrottle
    \/ SubmitResumed
    \/ InitialSleep
    \/ Poll
    \/ LoopSleep
    \/ LoopKeepAlive
    \/ LoopThrottle
    \/ Snapshot
    \/ SnapshotThrottle
    \/ GetResumed(FeedResults)
    \/ GetCreditsResumed

(* The program with one holder of the client, which awaits each call: the *)
(* calls of this section's first specification without those of another    *)
(* holder.  Every call and every pause returns: a running method takes its *)
(* next turn.                                                              *)

NextAlone ==
    \/ GetAuthToken(Fresh \/ Handed)
    \/ GetAuthTokenResumed
    \/ InitKeepAlive
    \/ KeepAliveCall(Handed)
    \/ KeepAliveCallResumed
    \/ KeepAliveThrottle
    \/ Generate(Handed)
    \/ CustomGenerate(Handed)
    \/ SubmitResumed
    \/ InitialSleep
    \/ Poll
    \/ LoopSleep
    \/ LoopKeepAlive
    \/ LoopThrottle
    \/ Snapshot
    \/ SnapshotThrottle
    \/ Get(Handed)
    \/ GetResumed(FeedResults)
    \/ GetCredits(Handed)
    \/ GetCreditsResumed

FairSpec == Init /\ [][NextAlone]_vars /\ WF_vars(Continue)

(* The class alone: its public methods called in any order, one at a time, *)
(* on an instance as the constructor leaves it.                            *)

NextClass ==
    \/ GetAuthToken(TRUE)
    \/ GetAuthTokenResumed
    \/ InitKeepAlive
    \/ KeepAliveCall(TRUE)
    \/ KeepAliveCallResumed
    \/ KeepAliveThrottle
    \/ Generate(TRUE)
    \/ CustomGenerate(TRUE)
    \/ SubmitResumed
    \/ InitialSleep
    \/ Poll
    \/ LoopSleep
    \/ LoopKeepAlive
    \/ LoopThrottle
    \/ Snapshot
    \/ SnapshotThrottle
    \/ Get(TRUE)
    \/ GetResumed(FeedResults)
    \/ GetCredits(TRUE)
    \/ GetCreditsResumed

SpecClass == Init /\ [][NextClass]_vars

(* get() alone, the feed answering one record whose metadata.prompt is any *)
(* text of at most MaxLen code units: the inputs of parseLyrics.           *)

TextResults == { [res |-> "ok", data |-> << Raw("a1", "complete", t) >>] : t \in Texts }

NextLyrics ==
    \/ Get(TRUE)
    \/ GetResumed(TextResults)

SpecLyrics == Init /\ [][NextLyrics]_vars

----------------------------------------------------------------------------
(* Properties *)

GenOps == {"generateSongs"}

\* Every record of the list has status "complete" or "streaming".
Terminal(list) ==
    \A i \in 1..Len(list) : list[i].status = "complete" \/ list[i].status = "streaming"

\* A turn of the observed caller (a step of another holder's call changes
\* the record of that call).
OwnStep == other' = other

\* C1: in a blocking submit, a fetch that did not end the loop had a record
\* that is neither complete nor streaming; a fetch whose records are all
\* complete or streaming ends the call in the turn in which it is answered,
\* the call returns exactly that fetch's result, and that fetch is the last
\* thing the call did (one pause before each fetch, one renewal before each
\* fetch but the first).
C1_FirstCompleteFetchReturns ==
    /\ (pc \in {"sleep", "refresh", "refresh_wait"} \/ (pc = "poll" /\ calls.feed > 1))
          => ~Terminal(fetched)
    /\ (op \in GenOps /\ lastReq.kind = "feed" /\ lastReq.res = "ok"
          /\ Terminal(MapFeed(lastReq.data)))
          => (pc = "idle" /\ outcome = "ALL_COMPLETE")
    /\ outcome = "ALL_COMPLETE"
          => /\ pc = "idle"
             /\ ret = fetched
             /\ ret = MapFeed(lastReq.data)
             /\ Terminal(ret)
             /\ lastReq.kind = "feed"
             /\ lastReq.res = "ok"
             /\ calls.pause = calls.feed
             /\ calls.renew = calls.feed - 1
             /\ calls.throttle = calls.feed - 1

C1_Witness ==
    /\ outcome = "ALL_COMPLETE"
    /\ calls.feed >= 2
    /\ Len(ret) = 2

\* C2 (as claimed): every request carries the token obtained by the most
\* recent successful renewal at the time it is sent.
C2_RequestsCarryNewestToken ==
    /\ lastReq.kind # "none" => lastReq.auth = lastReq.newest
    /\ other.at = "sent" => other.auth = other.newest

NonBlocking == op \in GenOps /\ args # NoArgs /\ args.wait_audio # "true"

\* C4: a submit with wait_audio = false makes exactly one submission call and
\* no fetch call; the list it returns has one element per clip of the
\* submission response, element i built from clip i.
C4_NonBlockingSnapshot ==
    NonBlocking =>
        /\ calls.generate = 1
        /\ calls.feed = 0
        /\ outcome = "SNAPSHOT" =>
             /\ Len(ret) = Len(clips)
             /\ \A i \in 1..Len(clips) :
                  ret[i] = [id |-> clips[i].id, status |-> clips[i].status,
                            lyric |-> clips[i].prompt, prompt |-> clips[i].prompt]

C4_Witness ==
    /\ NonBlocking
    /\ outcome = "SNAPSHOT"
    /\ Len(ret) = 2

KeepAliveInvoked ==
    /\ OwnStep
    /\ \/ pc = "idle" /\ op' = "keepAlive"
       \/ pc = "sleep"
       \/ /\ pc = "submit"
          /\ args.wait_audio # "true"
          /\ lastReq'.kind = "renew" \/ lastReq'.res = "200"

\* C6: keepAlive invoked while no session id is set throws without sending
\* the renewal call and leaves the token of future requests unchanged.
C6_KeepAliveWithoutSession ==
    [][ (KeepAliveInvoked /\ Falsy(sid))
          => /\ pc' = "idle"
             /\ outcome' = "rejected"
             /\ error' = "Session ID is not set. Cannot renew token."
             /\ lastReq'.kind # "renew"
             /\ lastReq'.res # "pending"
             /\ calls'.renew = 0
             /\ interceptors' = interceptors
             /\ renewResponse' = renewResponse
             /\ Authorization(interceptors') = Authorization(interceptors) ]_vars

C6_Witness ==
    /\ op = "keepAlive"
    /\ Falsy(sid)
    /\ outcome = "rejected"
    /\ error = "Session ID is not set. Cannot renew token."

\* C7: a submission, fetch or credits request is sent only by a client whose
\* session id is set and whose first init() succeeded: the client that
\* callers hold has a session id, whatever init() calls follow.
C7_NoCallBeforeSession ==
    /\ (lastReq.kind \in {"generate", "feed", "billing"}
          \/ calls.generate + calls.feed + calls.billing > 0
          \/ other.kind \in {"generate", "feed", "billing"})
        => (~Falsy(sid) /\ handed = "resolved")
    /\ handed = "resolved" => ~Falsy(sid)
    /\ other.at # "idle" => handed = "resolved"

C7_Witness ==
    /\ lastReq.kind = "generate"
    /\ lastReq.res = "pending"
    /\ other.kind = "identity"
    /\ sid = "sess_2"

\* C8: a fetch that fails in the polling loop ends the blocking submit with
\* that error: no list is returned and nothing (retry, pause, renewal)
\* follows the failed fetch.
C8_FetchErrorAborts ==
    (op \in GenOps /\ lastReq.kind = "feed" /\ lastReq.res \in Failures)
      => /\ pc = "idle"
         /\ outcome = "rejected"
         /\ error = lastReq.res
         /\ ret = <<>>
         /\ calls.pause = calls.feed
         /\ calls.renew = calls.feed - 1
         /\ calls.throttle = calls.feed - 1

C8_Witness ==
    /\ op \in GenOps
    /\ lastReq.kind = "feed"
    /\ lastReq.res = "timeout"
    /\ calls.feed >= 2
    /\ outcome = "rejected"

\* C9: a failed submission call (a status that is not 200, or a failed
\* exchange) makes submit throw, with the error of the exchange or with
\* "Error response:" followed by the status text; no fetch, pause or renewal
\* follows.
C9_SubmitErrorAborts ==
    (lastReq.kind = "generate" /\ lastReq.res \notin {"200", "pending"})
      => /\ pc = "idle"
         /\ outcome = "rejected"
         /\ lastReq.res \in Failures => error = lastReq.res
         /\ lastReq.res \notin Failures
              => error \in {"Error response:", "Error response:Created"}
         /\ ret = <<>>
         /\ calls = Bump(NoCalls, "generate")

C9_Witness ==
    /\ lastReq.kind = "generate"
    /\ lastReq.res = "201"
    /\ outcome = "rejected"
    /\ error = "Error response:Created"

\* C10: the payload has make_instrumental as a boolean (true only for the
\* value true), mv = "chirp-v3-0" and a prompt; in custom mode it has tags and
\* title and the prompt text in prompt; otherwise it has neither tags nor
\* title, the prompt text in gpt_description_prompt and an empty prompt.
C10_PayloadShape ==
    lastReq.kind = "generate" =>
        LET b == lastReq.body IN
        /\ b.make_instrumental = (args.make_instrumental = "true")
        /\ b.mv = "chirp-v3-0"
        /\ "prompt" \in DOMAIN b
        /\ args.isCustom =>
             /\ DOMAIN b = {"make_instrumental", "mv", "prompt", "tags", "title"}
             /\ b.tags = args.tags
             /\ b.title = args.title
             /\ b.prompt = args.prompt
        /\ ~args.isCustom =>
             /\ DOMAIN b = {"make_instrumental", "mv", "prompt", "gpt_description_prompt"}
             /\ b.gpt_description_prompt = args.prompt
             /\ b.prompt = ""

C10_Witness ==
    /\ lastReq.kind = "generate"
    /\ lastReq.res = "pending"
    /\ ~args.isCustom
    /\ args.make_instrumental = "null"
    /\ lastReq.body.gpt_description_prompt = "a calm piano piece"

\* The lines of a text, none of which is empty or made of white space only
\* (the empty text has no line).
NoBlankLine(text) ==
    \/ text = <<>>
    \/ \A k \in 1..Len(Split(text)) :
         \E c \in 1..Len(Split(text)[k]) : Split(text)[k][c] \notin WhiteSpace

\* C11: the lyric get() derives from a text is parseLyrics of that text; it
\* is a fixed point of parseLyrics and has no blank line.
C11_ParseLyricsIdempotent ==
    (op = "get" /\ outcome = "done")
      => \A i \in 1..Len(ret) :
           /\ ret[i].prompt = lastReq.data[i].prompt
           /\ ret[i].prompt # <<>> => ret[i].lyric = parseLyrics(ret[i].prompt)
           /\ parseLyrics(ret[i].lyric) = ret[i].lyric
           /\ NoBlankLine(ret[i].lyric)

C11_Witness ==
    /\ op = "get"
    /\ outcome = "done"
    /\ ret[1].prompt = <<97, 10, 9, 160>>
    /\ ret[1].lyric = <<97>>

\* url is the feed url with `ids` in its ids parameter, joined by commas in
\* the order of the list.
FeedUrlOf(url, ids) ==
    /\ Len(url) = 2 + (IF ids = <<>> THEN 0 ELSE 2 * Len(ids) - 1)
    /\ url[1] = "/api/feed/"
    /\ url[2] = "?ids="
    /\ \A k \in 1..Len(ids) : url[2 * k + 1] = ids[k]
    /\ \A k \in 1..(Len(ids) - 1) : url[2 * k + 2] = ","

\* list has one record per record of data, in the same order.
SameOrder(list, data) ==
    /\ Len(list) = Len(data)
    /\ \A i \in 1..Len(data) : list[i].id = data[i].id /\ list[i].status = data[i].status

\* C12: get(ids) requests the feed with the ids comma-joined in input order,
\* get() requests the whole feed (so does the fetch of the polling loop with
\* songIds); the list returned has the length and order of the answer.
C12_GetUrlAndOrder ==
    /\ (op = "get" /\ lastReq.kind = "feed")
         => /\ args.given => FeedUrlOf(lastReq.url, args.ids)
            /\ ~args.given => lastReq.url = << "/api/feed/" >>
            /\ outcome = "done" => SameOrder(ret, lastReq.data)
            /\ lastReq.res = "ok" => outcome = "done"
    /\ (op \in GenOps /\ lastReq.kind = "feed")
         => /\ FeedUrlOf(lastReq.url, songIds)
            /\ lastReq.res = "ok" => SameOrder(fetched, lastReq.data)

C12_Witness ==
    /\ op = "get"
    /\ outcome = "done"
    /\ args.given
    /\ args.ids = << "a2", "a1" >>
    /\ lastReq.url = << "/api/feed/", "?ids=", "a2", ",", "a1" >>
    /\ Len(ret) = 2
    /\ ret[1].id = "a1"
    /\ ret[2].id = "a2"

\* C13 (as claimed): a list returned as complete has, for every submitted
\* id, a record with status "complete" or "streaming".
C13_CompleteCoversSubmittedIds ==
    outcome = "ALL_COMPLETE"
      => \A k \in 1..Len(songIds) :
           \E i \in 1..Len(ret) :
             /\ ret[i].id = songIds[k]
             /\ ret[i].status \in {"complete", "streaming"}

\* C14 (as claimed): in blocking mode a renewal follows the submission call
\* and every fetch: while a fetch is in flight as many renewals as fetches
\* have been made, and one more when the call returns a list.
C14_RefreshAfterEveryRoundTrip ==
    /\ (op \in GenOps /\ pc = "poll") => calls.renew = calls.feed
    /\ outcome \in {"ALL_COMPLETE", "TIMED_OUT"} => calls.renew = calls.feed + 1

\* C14 (amended): in blocking mode one renewal follows every fetch that
\* neither ends the call nor fails, after the pause and before the next fetch
\* or the deadline return; none follows the submission call, and none follows
\* the fetch whose records are all complete or streaming.
C14_RefreshAfterUnfinishedFetch ==
    /\ pc = "initial_sleep"
         => (calls.renew = 0 /\ calls.feed = 0 /\ lastReq.kind = "generate")
    /\ pc = "poll"
         => (calls.renew = calls.feed - 1 /\ lastReq.kind = "feed")
    /\ pc = "sleep"
         => (calls.renew = calls.feed - 1 /\ lastReq.kind = "feed" /\ lastReq.res = "ok")
    /\ pc = "refresh"
         => (calls.renew = calls.feed /\ lastReq.kind = "renew" /\ lastReq.res = "pending")
    /\ pc = "refresh_wait"
         => (calls.renew = calls.feed /\ lastReq.kind = "renew" /\ lastReq.res = "ok")
    /\ outcome = "TIMED_OUT"
         => (calls.renew = calls.feed /\ lastReq.kind = "renew" /\ lastReq.res = "ok")
    /\ outcome = "ALL_COMPLETE"
         => (calls.renew = calls.feed - 1 /\ lastReq.kind = "feed")

C14_Witness ==
    /\ pc = "poll"
    /\ calls.feed = 2
    /\ calls.renew = 1
    /\ lastReq.kind = "feed"

\* Requests sent so far by the running method.
Sent(c) == c.generate + c.feed + c.renew + c.identity + c.billing

\* C15: the polling loop is sequential: a request of a blocking submit is in
\* flight only while the method awaits it, and no turn sends more than one;
\* after a fetch that does not end the call comes one pause of 3 to 6
\* seconds, then one renewal call, then the 1 to 2 second delay of that
\* renewal, after which its token is installed, then the next fetch or the
\* deadline return; so while a fetch is in flight there has been one pause
\* per fetch and one delayed renewal per fetch but the first.
C15_SequentialLoop ==
    /\ [](op \in GenOps
            => /\ (lastReq.res = "pending") = (pc \in {"submit", "poll", "refresh", "snapshot"})
               /\ pc = "poll"
                    => /\ lastReq.kind = "feed"
                       /\ calls.pause = calls.feed
                       /\ calls.renew = calls.feed - 1
                       /\ calls.throttle = calls.feed - 1)
    /\ [][ OwnStep =>
           /\ (op \in GenOps /\ pc # "idle") => Sent(calls') - Sent(calls) <= 1
           /\ pc = "sleep"
                => /\ pc' = "refresh"
                   /\ clock' - clock \in Sleep(3, 6)
                   /\ calls' = Bump(Bump(calls, "pause"), "renew")
                   /\ lastReq'.kind = "renew"
           /\ pc = "refresh"
                => /\ calls' = calls
                   /\ lastReq' = Answer(lastReq, lastReq'.res)
                   /\ \/ /\ pc' = "refresh_wait"
                         /\ lastReq'.res = "ok"
                         /\ renewResponse' # 0
                         /\ interceptors' = interceptors
                      \/ /\ pc' = "idle"
                         /\ outcome' = "rejected"
           /\ pc = "refresh_wait"
                => /\ clock' - clock \in Sleep(1, 2)
                   /\ interceptors' = Append(interceptors, renewResponse)
                   /\ \/ /\ pc' = "poll"
                         /\ calls' = Bump(Bump(calls, "throttle"), "feed")
                      \/ /\ outcome' = "TIMED_OUT"
                         /\ calls' = Bump(calls, "throttle")
                         /\ lastReq' = lastReq
         ]_vars

C15_Witness ==
    /\ op \in GenOps
    /\ pc = "sleep"
    /\ calls.feed = 2
    /\ calls.pause = 2
    /\ calls.renew = 1
    /\ calls.throttle = 1
    /\ other.at = "sent"

C17_SnapshotRefresh ==
    /\ pc = "submit" => calls.renew = 0
    /\ pc = "snapshot"
         => /\ NonBlocking
            /\ outcome = "pending"
            /\ calls.generate = 1
            /\ calls.renew = 1
            /\ lastReq.kind = "renew"
            /\ lastReq.res = "pending"
            /\ songIds = IdsOf(clips)
    /\ pc = "snapshot_wait"
         => /\ NonBlocking
            /\ outcome = "pending"
            /\ calls.renew = 1
            /\ calls.throttle = 0
            /\ lastReq.kind = "renew"
            /\ lastReq.res = "ok"
    /\ (NonBlocking /\ outcome = "SNAPSHOT")
         => /\ calls.generate = 1
            /\ calls.renew = 1
            /\ calls.throttle = 1
            /\ lastReq.kind = "renew"
            /\ lastReq.res = "ok"
    /\ (NonBlocking /\ pc = "idle" /\ lastReq.kind = "renew" /\ lastReq.res \in Failures)
         => /\ outcome = "rejected"
            /\ error = lastReq.res
            /\ ret = <<>>
            /\ calls.generate = 1
            /\ calls.renew = 1
            /\ calls.throttle = 0
            /\ songIds = IdsOf(clips)

C17_Witness ==
    /\ NonBlocking
    /\ outcome = "rejected"
    /\ lastReq.kind = "renew"
    /\ lastReq.res = "http_error"
    /\ songIds = <<"a1", "a2">>
    /\ ret = <<>>

\* A turn in which the renewal call of a keepAlive of the observed caller is
\* answered.
RenewalAnswered ==
    /\ OwnStep
    /\ pc \in {"init_keepAlive", "keepAlive", "refresh", "snapshot"}

\* C18: a keepAlive whose renewal call fails changes nothing: neither the
\* turn that calls it nor the turn in which the call is answered changes the
\* session id or the registered interceptors, and so the Authorization header
\* of later requests; no token is left to be installed, and the caller gets
\* the error of the renewal call; in the polling loop this ends the blocking
\* submit with that error.
C18_FailedRenewalChangesNothing ==
    /\ [][ KeepAliveInvoked
             => /\ sid' = sid
                /\ interceptors' = interceptors
         ]_vars
    /\ [][ RenewalAnswered
             => /\ lastReq'.kind = "renew"
                /\ lastReq'.res # "pending"
                /\ lastReq'.res \in Failures
                     => /\ sid' = sid
                        /\ interceptors' = interceptors
                        /\ Authorization(interceptors') = Authorization(interceptors)
                        /\ renewResponse' = 0
                        /\ pc' = "idle"
                        /\ outcome' = "rejected"
                        /\ error' = lastReq'.res
                        /\ ret' = <<>>
         ]_vars
    /\ []((op \in GenOps /\ pc = "idle" /\ lastReq.kind = "renew" /\ lastReq.res \in Failures)
            => (outcome = "rejected" /\ error = lastReq.res /\ ret = <<>>))

C18_Witness ==
    /\ op \in GenOps
    /\ calls.feed >= 1
    /\ outcome = "rejected"
    /\ error = "http_error"
    /\ lastReq.kind = "renew"
    /\ lastReq.res = "http_error"
    /\ Len(interceptors) >= 1
    /\ ~Falsy(sid)

\* C19: the list returned on the deadline exit comes from a fetch that was
\* made and holds a record that is neither complete nor streaming: it is not
\* the initial empty list and not a list of terminal records only.
C19_TimedOutListIsUnfinished ==
    outcome = "TIMED_OUT"
      => /\ calls.feed >= 1
         /\ ret # <<>>
         /\ ret = fetched
         /\ ~Terminal(ret)
         /\ \E i \in 1..Len(ret) : ret[i].status \notin {"complete", "streaming"}

C19_Witness ==
    /\ outcome = "TIMED_OUT"
    /\ calls.feed = 1
    /\ Len(ret) = 2
    /\ ret[1].status = "complete"
    /\ ret[2].status = "queued"

\* A step in which a keepAlive registers its interceptor: the observed
\* caller's keepAlive when its renewal call is answered or when its pause
\* ends, or the keepAlive of another holder.
KeepAliveInstalls ==
    \/ /\ RenewalAnswered
       /\ pc \in {"init_keepAlive", "keepAlive"}
       /\ lastReq'.res = "ok"
    \/ /\ OwnStep
       /\ pc \in {"keepAlive_wait", "refresh_wait", "snapshot_wait"}
    \/ /\ other.kind = "renew"
       /\ \/ other.at = "sent" /\ ~other.isWait /\ other'.at = "idle"
          \/ other.at = "throttle" /\ other' # other

\* The methods the claim C20 names, as the model names them.
Later == GenOps \cup {"keepAlive", "get", "get_credits"}

\* C20: the session id changes only in the turn in which an init() saves the
\* id the identity endpoint reported: no step of keepAlive, generate,
\* custom_generate, get or get_credits, of the observed caller or of another
\* holder, changes or clears it; the interceptors, and with them the
\* Authorization header of later requests, change only in a keepAlive whose
\* renewal call succeeded, by one more interceptor: the submission call, the
\* fetches and the billing call leave them as they are.
C20_SessionFrame ==
    [][ /\ (OwnStep /\ op' \in Later) => sid' = sid
        /\ (~OwnStep /\ other.kind # "identity" /\ other'.kind # "identity") => sid' = sid
        /\ sid' # sid
             => /\ \/ OwnStep /\ op = "init" /\ pc = "identity"
                   \/ ~OwnStep /\ other.kind = "identity"
                /\ ~Falsy(sid')
        /\ (OwnStep /\ pc = "idle" /\ op' \in GenOps \cup {"get", "get_credits"})
             => interceptors' = interceptors
        /\ (OwnStep /\ pc \in {"submit", "get", "get_credits", "initial_sleep", "poll",
                               "sleep"})
             => interceptors' = interceptors
        /\ (~OwnStep /\ (other.kind \in {"generate", "feed", "billing"}
                          \/ other.at \in {"initial_sleep", "sleep"}))
             => interceptors' = interceptors
        /\ interceptors' # interceptors
             => /\ KeepAliveInstalls
                /\ Len(interceptors') = Len(interceptors) + 1
                /\ SubSeq(interceptors', 1, Len(interceptors)) = interceptors
      ]_vars

C20_Witness ==
    /\ op = "get_credits"
    /\ outcome = "done"
    /\ lastReq.kind = "billing"
    /\ sid = "sess_1"
    /\ Len(interceptors) = 2

====
